---- MODULE Spec2Model ----
(***************************************************************************)
(* Credential lifecycle and authenticated-proxy protocol of the            *)
(* auth-keycloak-server (src/index.ts, src/utils.ts).                      *)
(*                                                                         *)
(* One browser holds a cookie jar; it sends requests to the Express        *)
(* routes /auth/callback, /auth/logout, /auth/validate and /api/v1/*.      *)
(* Every handler is an async function: it runs from one await to the next  *)
(* without interruption, so every action below is the code between two     *)
(* awaits, taken together with the outcome of the awaited call.  The       *)
(* identity provider, the backend and the Redis server are the             *)
(* environment: every call to them ends in one of the outcomes the HTTP    *)
(* client (axios) or the Redis client (ioredis) can report.                *)
(***************************************************************************)
EXTENDS Integers, Sequences, FiniteSets, TLC

(***************************************************************************)
(* Bounds of the model.                                                    *)
(***************************************************************************)
\* Number of credential pairs the provider issues in one behaviour.
MaxPairs == 3
\* Number of requests a browser that does not wait for responses sends in
\* one behaviour.
MaxRequests == 3

(***************************************************************************)
(* Values.                                                                 *)
(***************************************************************************)
\* undefined / null / a missing cookie.
None == <<>>
\* The n-th credential pair of the provider: its two opaque strings.
AT(n) == <<"AT", n>>
RT(n) == <<"RT", n>>
\* A string some other application put into a cookie of this host.
ForeignToken == <<"foreign">>
AccessTokens == {AT(n) : n \in 1..MaxPairs} \cup {ForeignToken}

\* The two request slots (requests the browser has in flight at one time).
Reqs == {1, 2}

\* Cookie names the browser may hold for this host.  x_access_token is a
\* cookie of another application whose name merely ends in access_token.
CookieNames == {"access_token", "refresh_token", "x_access_token"}
EmptyHeader == [n \in CookieNames |-> None]

\* Identities the provider may return from userinfo, bodies of the backend.
Users == {"u1", "u2"}
BackendData == {"d1"}
\* Non-2xx statuses an upstream may answer with (axios rejects on them).
FailureStatuses == {401, 403, 500}

\* What an awaited axios call resolves or rejects with.
AxiosOk(d) == [kind |-> "ok", data |-> d]
AxiosHttpError(s) == [kind |-> "http", status |-> s]
AxiosNetworkError == [kind |-> "network"]
\* What an awaited ioredis command resolves with, and what it throws when
\* the server cannot be reached.
RedisOk(v) == [kind |-> "ok", data |-> v]
RedisError == [kind |-> "redis"]
AxiosErrors == {AxiosHttpError(s) : s \in FailureStatuses} \cup {AxiosNetworkError}
UserinfoResults == {AxiosOk(u) : u \in Users} \cup AxiosErrors
BackendResults == {AxiosOk(d) : d \in BackendData} \cup AxiosErrors

\* error.response?.status; 0 stands for undefined (no response, or an error
\* that is no HTTP error at all).
ResponseStatus(error) == IF error.kind = "http" THEN error.status ELSE 0

\* JSON.stringify / JSON.parse of a cache payload.
JSONStringify(v) == <<"json", v>>
JSONParse(s) == s[2]
\* One cache key for every token.
CacheKey_Shared(token) == <<"userinfo", None>>

\* `userinfo:${token}`
CacheKey(token) == <<"userinfo", token>>
CacheKeys == {CacheKey(t) : t \in AccessTokens}

\* Cookie directives of a response: per cookie, no directive, a new value,
\* or a clearing directive.
Clear == <<"clear">>
NoCookies == [access_token |-> None, refresh_token |-> None]

VARIABLES
    jar,        \* the browser's cookies for this host: name -> value
    cache,      \* the Redis store: key -> stored string, None when absent
    req,        \* per request slot: the handler's locals, its position, its response
    nextPair,   \* the provider's next credential pair
    started,    \* number of requests sent so far by a browser that does not wait
    alive,      \* the Node process is running
    pipelining, \* the browser sends requests without waiting for responses
    failedRefresh,  \* the refresh token of the session's last failed refresh
    loggedOut,  \* the browser has logged out and not logged in since
    expiresIn,  \* refresh_expires_in of a token response whose cookies are computed
    maxAge      \* the maxAge options computed from it

vars == <<jar, cache, req, nextPair, started, alive, pipelining,
          failedRefresh, loggedOut, expiresIn, maxAge>>

\* A free request slot.
IdleReq ==
    [route |-> "none", pc |-> "idle", header |-> EmptyHeader,
     token |-> None, refreshToken |-> None, tokens |-> None, data |-> None,
     status |-> 0, body |-> None, cookies |-> NoCookies, responses |-> 0,
     calls |-> <<>>, code |-> "absent"]

\* The server has started: no request yet, nothing cached, no session.
Started ==
    /\ jar = EmptyHeader
    /\ cache = [k \in CacheKeys |-> None]
    /\ req = [r \in Reqs |-> IdleReq]
    /\ nextPair = 1
    /\ started = 0
    /\ alive = TRUE
    /\ failedRefresh = None
    /\ loggedOut = FALSE

\* A browser that waits for each response before it sends the next request.
Init == Started /\ pipelining = FALSE /\ expiresIn = None /\ maxAge = None

\* A browser that has up to two requests in flight.
InitConcurrent == Started /\ pipelining = TRUE /\ expiresIn = None /\ maxAge = None

(***************************************************************************)
(* Helpers shared by the handlers.                                         *)
(***************************************************************************)
\* cookie-parser: req.cookies[name].
ParsedCookie(header, name) == header[name]

\* req.headers.cookie?.match(/<name>=([^;]+)/)?.[1]: the value of the first
\* cookie of the raw header whose text "<cookie name>=<value>" contains
\* "<name>=" followed by a non-empty value; the pattern is not anchored at
\* the start of a cookie name.
HeaderMatch(header, name) ==
    IF header[name] # None THEN header[name]
    ELSE IF name = "access_token" /\ header["x_access_token"] # None
         THEN header["x_access_token"]
         ELSE None

\* a || b on strings.
OrElse(a, b) == IF a # None THEN a ELSE b

\* res.status(s).json(b) / res.json(b) / res.redirect(url): the response is sent.
Respond(rec, s, b) ==
    [rec EXCEPT !.pc = "done", !.status = s, !.body = b,
                !.responses = rec.responses + 1]

\* The request made one more outbound call.
Called(rec, op, arg, result) ==
    [rec EXCEPT !.calls = Append(rec.calls, [op |-> op, arg |-> arg, result |-> result])]

\* The Cookie header of a request: the jar's cookies and, possibly, a cookie
\* of another application of the host.
Headers == {[jar EXCEPT !["x_access_token"] = x] : x \in {None, ForeignToken}}

\* The browser sends a request with Cookie header h.
Sent(route, h) == [IdleReq EXCEPT !.route = route, !.header = h]

\* The browser may send a request in slot r: the lowest free slot; a browser
\* that waits has no other request in flight, one that does not wait sends
\* MaxRequests requests at most.
MaySend(r) ==
    /\ alive
    /\ req[r].pc = "idle"
    /\ \A q \in Reqs : q < r => req[q].pc # "idle"
    /\ IF pipelining THEN started < MaxRequests
                     ELSE \A q \in Reqs : req[q].pc = "idle"
    /\ started' = IF pipelining THEN started + 1 ELSE started
    /\ UNCHANGED <<alive, pipelining, failedRefresh, loggedOut, expiresIn, maxAge>>

(***************************************************************************)
(* Response bodies.                                                        *)
(***************************************************************************)
NotAuthenticated == [isAuthenticated |-> FALSE]
Authenticated(user) == [isAuthenticated |-> TRUE, user |-> user]
Unauthorized == [error |-> "Unauthorized"]
ApiError == [error |-> "API error"]
InvalidCode == [error |-> "Invalid authorization code"]
AuthenticationFailed == [error |-> "Authentication failed"]
\* The body of the framework's own error response.
FrameworkError == [error |-> "Internal Server Error"]

(***************************************************************************)
(* A rejected promise that no try block of an async handler catches.  The  *)
(* outcome depends on the installed Express and on how Node is started     *)
(* (neither is pinned by the repository): Express 4 leaves the rejection   *)
(* unhandled, and then Node either ends the process or, with               *)
(* --unhandled-rejections=warn, goes on and the request never gets a       *)
(* response; Express 5 hands the error to its default error handler, which *)
(* answers 500.                                                            *)
(***************************************************************************)
UncaughtOutcomes == {"exit", "hang", "framework"}

Uncaught(rec, how) ==
    IF how = "framework" THEN Respond(rec, 500, FrameworkError)
    ELSE [rec EXCEPT !.pc = "uncaught"]

(***************************************************************************)
(* Conditions of the handlers.                                             *)
(***************************************************************************)
\* if (!token): index.ts 100, 149.
HasToken(token) == token # None

\* A refresh on every error, whatever its status.
ShouldRefresh_AnyError(error, refreshToken) == refreshToken # None

\* A refresh on every 401, with or without a refresh token.
ShouldRefresh_WithoutToken(error, refreshToken) == ResponseStatus(error) = 401

\* error.response?.status === 401 && refreshToken: index.ts 119, 165.
ShouldRefresh(error, refreshToken) ==
    ResponseStatus(error) = 401 /\ refreshToken # None

(***************************************************************************)
(* refreshTokens(refreshToken, res) of utils.ts, from the await of the     *)
(* token endpoint on: `result` is what axios.post resolved or rejected     *)
(* with, data = [access_token, refresh_token] on success.  Gives the       *)
(* request with res.cookie applied and `tokens` set to the return value.   *)
(***************************************************************************)
\* A refresh that clears the cookies when the provider rejects it.
RefreshTokens_ClearOnFailure(rec, result) ==
    LET logged == Called(rec, "refresh", rec.refreshToken, result) IN
    IF result.kind = "ok"
    THEN [logged EXCEPT
            !.cookies = [access_token |-> result.data.access_token,
                         refresh_token |-> result.data.refresh_token],
            !.tokens = [access_token |-> result.data.access_token,
                        refresh_token |-> result.data.refresh_token]]
    ELSE [logged EXCEPT !.tokens = None,
                        !.cookies = [access_token |-> Clear, refresh_token |-> Clear]]

\* A refresh that sets the access_token cookie alone.
RefreshTokens_AccessOnly(rec, result) ==
    LET logged == Called(rec, "refresh", rec.refreshToken, result) IN
    IF result.kind = "ok"
    THEN [logged EXCEPT
            !.cookies = [access_token |-> result.data.access_token,
                         refresh_token |-> None],
            !.tokens = [access_token |-> result.data.access_token,
                        refresh_token |-> result.data.refresh_token]]
    ELSE [logged EXCEPT !.tokens = None]

\* A refresh that sets the refresh_token cookie to the token it was called with.
RefreshTokens_StaleRefreshCookie(rec, result) ==
    LET logged == Called(rec, "refresh", rec.refreshToken, result) IN
    IF result.kind = "ok"
    THEN [logged EXCEPT
            !.cookies = [access_token |-> result.data.access_token,
                         refresh_token |-> rec.refreshToken],
            !.tokens = [access_token |-> result.data.access_token,
                        refresh_token |-> result.data.refresh_token]]
    ELSE [logged EXCEPT !.tokens = None]

RefreshTokens(rec, result) ==
    LET logged == Called(rec, "refresh", rec.refreshToken, result) IN
    IF result.kind = "ok"
    THEN [logged EXCEPT
            !.cookies = [access_token |-> result.data.access_token,
                         refresh_token |-> result.data.refresh_token],
            !.tokens = [access_token |-> result.data.access_token,
                        refresh_token |-> result.data.refresh_token]]
    ELSE [logged EXCEPT !.tokens = None]

\* What the token endpoint may answer: the next credential pair, or a failure.
TokenResults ==
    (IF nextPair <= MaxPairs
     THEN {AxiosOk([access_token |-> AT(nextPair), refresh_token |-> RT(nextPair)])}
     ELSE {}) \cup AxiosErrors

\* The provider has issued a pair iff the call succeeded.
Issued(result) == IF result.kind = "ok" THEN nextPair + 1 ELSE nextPair

\* The refresh token of the session's last failed refresh (the catch of
\* utils.ts 56-59 was taken), after one more call of refreshTokens; a
\* successful /auth/callback starts the record anew.
Failures(refreshToken, result) ==
    IF result.kind = "ok" THEN failedRefresh ELSE refreshToken

(***************************************************************************)
(* GET /auth/validate (index.ts 96-142).                                   *)
(***************************************************************************)
\* 97-102: the handler up to its first await (redis.get).
ValidateEntry(rec) ==
    LET token == OrElse(ParsedCookie(rec.header, "access_token"),
                        HeaderMatch(rec.header, "access_token"))
        refreshToken == OrElse(ParsedCookie(rec.header, "refresh_token"),
                               HeaderMatch(rec.header, "refresh_token"))
        seen == [rec EXCEPT !.token = token, !.refreshToken = refreshToken]
    IN  IF ~HasToken(token)
        THEN Respond(seen, 401, NotAuthenticated)
        ELSE [seen EXCEPT !.pc = "v_get"]

\* 118-123, 137-140: the catch block of the first try, up to the await of
\* refreshTokens.
ValidateCatch(rec, error) ==
    IF ShouldRefresh(error, rec.refreshToken)
    THEN [rec EXCEPT !.pc = "refresh"]
    ELSE Respond(rec, 401, NotAuthenticated)

\* A retry that refreshes again when it is rejected with 401.
ValidateRetryCatch_Chained(rec, error) ==
    IF ShouldRefresh(error, rec.refreshToken)
    THEN [rec EXCEPT !.pc = "refresh"]
    ELSE Respond(rec, 401, NotAuthenticated)

\* A retry whose failure is answered as authenticated.
ValidateRetryCatch_Optimistic(rec, error) == Respond(rec, 200, Authenticated("u1"))

\* 133-136: the catch block of the retry.
ValidateRetryCatch(rec, error) == Respond(rec, 401, NotAuthenticated)

StartValidate(r) ==
    /\ MaySend(r)
    /\ \E h \in Headers : req' = [req EXCEPT ![r] = ValidateEntry(Sent("validate", h))]
    /\ UNCHANGED <<jar, cache, nextPair>>

\* 104-108: redis.get answers, or rejects outside every try block.
ValidateCacheGet(r) ==
    /\ alive /\ req[r].route = "validate" /\ req[r].pc = "v_get"
    /\ LET rec == req[r]
           cacheKey == CacheKey(rec.token)
       IN \/ /\ LET cached == cache[cacheKey]
                    got == Called(rec, "cache_get", cacheKey, RedisOk(cached))
                IN  req' = [req EXCEPT ![r] =
                              IF cached # None
                              THEN Respond(got, 200, JSONParse(cached))
                              ELSE [got EXCEPT !.pc = "v_info1"]]
             /\ UNCHANGED alive
          \/ \E how \in UncaughtOutcomes :
                /\ req' = [req EXCEPT ![r] =
                             Uncaught(Called(rec, "cache_get", cacheKey, RedisError), how)]
                /\ alive' = (how # "exit")
    /\ UNCHANGED <<jar, cache, nextPair, started, pipelining, failedRefresh, loggedOut, expiresIn, maxAge>>

\* 110-115: userinfo with the request's token answers.
ValidateUserinfo(r) ==
    /\ alive /\ req[r].route = "validate" /\ req[r].pc = "v_info1"
    /\ \E result \in UserinfoResults :
         LET asked == Called(req[r], "userinfo", req[r].token, result) IN
         req' = [req EXCEPT ![r] =
                   IF result.kind = "ok"
                   THEN [asked EXCEPT !.pc = "v_set1",
                                      !.data = Authenticated(result.data)]
                   ELSE ValidateCatch(asked, result)]
    /\ UNCHANGED <<jar, cache, nextPair, started, alive, pipelining, failedRefresh, loggedOut, expiresIn, maxAge>>

\* 116-117: redis.set answers, or rejects into the catch block of 118.
ValidateCacheSet(r) ==
    /\ alive /\ req[r].route = "validate" /\ req[r].pc = "v_set1"
    /\ LET rec == req[r]
           cacheKey == CacheKey(rec.token)
           value == JSONStringify(rec.data)
       IN \/ /\ cache' = [cache EXCEPT ![cacheKey] = value]
             /\ req' = [req EXCEPT ![r] =
                          Respond(Called(rec, "cache_set", cacheKey, RedisOk(value)), 200, rec.data)]
          \/ /\ req' = [req EXCEPT ![r] =
                          ValidateCatch(Called(rec, "cache_set", cacheKey, RedisError),
                                        RedisError)]
             /\ UNCHANGED cache
    /\ UNCHANGED <<jar, nextPair, started, alive, pipelining, failedRefresh, loggedOut, expiresIn, maxAge>>

\* 120-123: refreshTokens returns.
ValidateRefresh(r) ==
    /\ alive /\ req[r].route = "validate" /\ req[r].pc = "refresh"
    /\ \E result \in TokenResults :
         /\ LET after == RefreshTokens(req[r], result) IN
            req' = [req EXCEPT ![r] =
                      IF after.tokens = None
                      THEN Respond(after, 401, NotAuthenticated)
                      ELSE [after EXCEPT !.pc = "v_info2"]]
         /\ nextPair' = Issued(result)
         /\ failedRefresh' = Failures(req[r].refreshToken, result)
    /\ UNCHANGED <<jar, cache, started, alive, pipelining, loggedOut, expiresIn, maxAge>>

\* 125-130: userinfo with the new access token answers.
ValidateRetryUserinfo(r) ==
    /\ alive /\ req[r].route = "validate" /\ req[r].pc = "v_info2"
    /\ \E result \in UserinfoResults :
         LET asked == Called(req[r], "userinfo", req[r].tokens.access_token, result) IN
         req' = [req EXCEPT ![r] =
                   IF result.kind = "ok"
                   THEN [asked EXCEPT !.pc = "v_set2",
                                      !.data = Authenticated(result.data)]
                   ELSE ValidateRetryCatch(asked, result)]
    /\ UNCHANGED <<jar, cache, nextPair, started, alive, pipelining, failedRefresh, loggedOut, expiresIn, maxAge>>

\* A cache write after the retry under the key of the token the request
\* came with.
ValidateRetryCacheSet_OldKey(r) ==
    /\ alive /\ req[r].route = "validate" /\ req[r].pc = "v_set2"
    /\ LET rec == req[r]
           cacheKey == CacheKey(rec.token)
           value == JSONStringify(rec.data)
       IN \/ /\ cache' = [cache EXCEPT ![cacheKey] = value]
             /\ req' = [req EXCEPT ![r] =
                          Respond(Called(rec, "cache_set", cacheKey, RedisOk(value)), 200, rec.data)]
          \/ /\ req' = [req EXCEPT ![r] =
                          ValidateRetryCatch(Called(rec, "cache_set", cacheKey, RedisError),
                                             RedisError)]
             /\ UNCHANGED cache
    /\ UNCHANGED <<jar, nextPair, started, alive, pipelining, failedRefresh, loggedOut, expiresIn, maxAge>>

\* 131-132: redis.set under the new token answers, or rejects into 133.
ValidateRetryCacheSet(r) ==
    /\ alive /\ req[r].route = "validate" /\ req[r].pc = "v_set2"
    /\ LET rec == req[r]
           cacheKey == CacheKey(rec.tokens.access_token)
           value == JSONStringify(rec.data)
       IN \/ /\ cache' = [cache EXCEPT ![cacheKey] = value]
             /\ req' = [req EXCEPT ![r] =
                          Respond(Called(rec, "cache_set", cacheKey, RedisOk(value)), 200, rec.data)]
          \/ /\ req' = [req EXCEPT ![r] =
                          ValidateRetryCatch(Called(rec, "cache_set", cacheKey, RedisError),
                                             RedisError)]
             /\ UNCHANGED cache
    /\ UNCHANGED <<jar, nextPair, started, alive, pipelining, failedRefresh, loggedOut, expiresIn, maxAge>>

(***************************************************************************)
(* /api/v1/* (index.ts 145-191).                                           *)
(***************************************************************************)
\* 146-151: the handler up to its first await (the backend call).
ProxyEntry(rec) ==
    LET token == ParsedCookie(rec.header, "access_token")
        refreshToken == ParsedCookie(rec.header, "refresh_token")
        seen == [rec EXCEPT !.token = token, !.refreshToken = refreshToken]
    IN  IF ~HasToken(token)
        THEN Respond(seen, 401, Unauthorized)
        ELSE [seen EXCEPT !.pc = "p_call1"]

\* Every failure of the backend answered with 500.
ProxyFailureStatus_Always500(error) == 500

\* error.response?.status || 500: index.ts 188.
ProxyFailureStatus(error) ==
    IF ResponseStatus(error) # 0 THEN ResponseStatus(error) ELSE 500

\* 164-166, 186-189: the catch block of the first try, up to the await of
\* refreshTokens.
ProxyCatch(rec, error) ==
    IF ShouldRefresh(error, rec.refreshToken)
    THEN [rec EXCEPT !.pc = "refresh"]
    ELSE Respond(rec, ProxyFailureStatus(error), ApiError)

\* 182-185: the catch block of the retry.
ProxyRetryCatch(rec, error) == Respond(rec, 401, Unauthorized)

StartProxy(r) ==
    /\ MaySend(r)
    /\ \E h \in Headers : req' = [req EXCEPT ![r] = ProxyEntry(Sent("proxy", h))]
    /\ UNCHANGED <<jar, cache, nextPair>>

\* 153-163: the backend answers the call made with the request's token.
ProxyCall(r) ==
    /\ alive /\ req[r].route = "proxy" /\ req[r].pc = "p_call1"
    /\ \E result \in BackendResults :
         LET asked == Called(req[r], "backend", req[r].token, result) IN
         req' = [req EXCEPT ![r] =
                   IF result.kind = "ok"
                   THEN Respond(asked, 200, result.data)
                   ELSE ProxyCatch(asked, result)]
    /\ UNCHANGED <<jar, cache, nextPair, started, alive, pipelining, failedRefresh, loggedOut, expiresIn, maxAge>>

\* 166-169: refreshTokens returns.
ProxyRefresh(r) ==
    /\ alive /\ req[r].route = "proxy" /\ req[r].pc = "refresh"
    /\ \E result \in TokenResults :
         /\ LET after == RefreshTokens(req[r], result) IN
            req' = [req EXCEPT ![r] =
                      IF after.tokens = None
                      THEN Respond(after, 401, Unauthorized)
                      ELSE [after EXCEPT !.pc = "p_call2"]]
         /\ nextPair' = Issued(result)
         /\ failedRefresh' = Failures(req[r].refreshToken, result)
    /\ UNCHANGED <<jar, cache, started, alive, pipelining, loggedOut, expiresIn, maxAge>>

\* 171-185: the backend answers the call made with the new access token.
ProxyRetry(r) ==
    /\ alive /\ req[r].route = "proxy" /\ req[r].pc = "p_call2"
    /\ \E result \in BackendResults :
         LET asked == Called(req[r], "backend", req[r].tokens.access_token, result) IN
         req' = [req EXCEPT ![r] =
                   IF result.kind = "ok"
                   THEN Respond(asked, 200, result.data)
                   ELSE ProxyRetryCatch(asked, result)]
    /\ UNCHANGED <<jar, cache, nextPair, started, alive, pipelining, failedRefresh, loggedOut, expiresIn, maxAge>>

(***************************************************************************)
(* GET /auth/callback (index.ts 40-81).                                    *)
(***************************************************************************)
\* What req.query.code may be: absent, an empty string, an array (the
\* parameter given twice), a non-empty string.
QueryCodes == {"absent", "empty", "array", "string"}

\* Only a missing code is refused.
InvalidQueryCode_OnlyMissing(code) == code = "absent"

\* !code || typeof code !== 'string': index.ts 43.
InvalidQueryCode(code) == code # "string"

\* res.redirect(APP_URL) and the redirect of logout.
RedirectApp == [location |-> "APP_URL"]
RedirectLogout == [location |-> "KEYCLOAK_LOGOUT"]

StartCallback(r) ==
    /\ MaySend(r)
    /\ \E code \in QueryCodes, h \in Headers :
         LET sent == [Sent("callback", h) EXCEPT !.code = code] IN
         req' = [req EXCEPT ![r] =
                   IF InvalidQueryCode(code)
                   THEN Respond(sent, 400, InvalidCode)
                   ELSE [sent EXCEPT !.pc = "c_exchange"]]
    /\ UNCHANGED <<jar, cache, nextPair>>

\* 55-80: the token endpoint answers the code exchange.
CallbackExchange(r) ==
    /\ alive /\ req[r].route = "callback" /\ req[r].pc = "c_exchange"
    /\ \E result \in TokenResults :
         /\ LET asked == Called(req[r], "exchange", None, result) IN
            req' = [req EXCEPT ![r] =
                      IF result.kind = "ok"
                      THEN Respond([asked EXCEPT !.cookies =
                                       [access_token |-> result.data.access_token,
                                        refresh_token |-> result.data.refresh_token]],
                                   302, RedirectApp)
                      ELSE Respond(asked, 500, AuthenticationFailed)]
         /\ nextPair' = Issued(result)
         /\ failedRefresh' = IF result.kind = "ok" THEN None ELSE failedRefresh
    /\ UNCHANGED <<jar, cache, started, alive, pipelining, loggedOut, expiresIn, maxAge>>

(***************************************************************************)
(* GET /auth/logout (index.ts 84-93): no await, one step.                  *)
(***************************************************************************)
\* A logout that empties the cache.
Logout_FlushCache(r) ==
    /\ MaySend(r)
    /\ \E h \in Headers :
         req' = [req EXCEPT ![r] =
                   Respond([Sent("logout", h) EXCEPT !.cookies =
                              [access_token |-> Clear, refresh_token |-> Clear]],
                           302, RedirectLogout)]
    /\ cache' = [k \in CacheKeys |-> None]
    /\ UNCHANGED <<jar, nextPair>>

Logout(r) ==
    /\ MaySend(r)
    /\ \E h \in Headers :
         req' = [req EXCEPT ![r] =
                   Respond([Sent("logout", h) EXCEPT !.cookies =
                              [access_token |-> Clear, refresh_token |-> Clear]],
                           302, RedirectLogout)]
    /\ UNCHANGED <<jar, cache, nextPair>>

(***************************************************************************)
(* The browser and the Redis server.                                       *)
(***************************************************************************)
\* One Set-Cookie directive applied to one cookie.
ApplyDirective(old, directive) ==
    IF directive = None THEN old
    ELSE IF directive = Clear THEN None
    ELSE directive

\* The jar after the browser has applied the cookie directives of a response.
Delivered(j, cookies) ==
    [j EXCEPT !["access_token"] = ApplyDirective(@, cookies.access_token),
              !["refresh_token"] = ApplyDirective(@, cookies.refresh_token)]

\* Whether the browser, having applied the response of a request, is logged
\* out: it is after the response of /auth/logout, and no more after the
\* redirect of a successful /auth/callback.
LoggedOutAfter(rec) ==
    IF rec.route = "logout" THEN TRUE
    ELSE IF rec.route = "callback" /\ rec.status = 302 THEN FALSE
    ELSE loggedOut

\* The browser receives the response of request r and applies its cookies.
Deliver(r) ==
    /\ req[r].pc = "done"
    /\ jar' = Delivered(jar, req[r].cookies)
    /\ loggedOut' = LoggedOutAfter(req[r])
    /\ req' = [req EXCEPT ![r] = IdleReq]
    /\ UNCHANGED <<cache, nextPair, started, alive, pipelining, failedRefresh,
                   expiresIn, maxAge>>

\* The browser gives up a request that will get no response: its handler
\* ended in an unhandled rejection, or the process has ended.
Abandon(r) ==
    /\ \/ req[r].pc = "uncaught"
       \/ ~alive /\ req[r].pc \notin {"idle", "done"}
    /\ req' = [req EXCEPT ![r] = IdleReq]
    /\ UNCHANGED <<jar, cache, nextPair, started, alive, pipelining, failedRefresh, loggedOut, expiresIn, maxAge>>

\* maxAge of a cookie runs out in the browser: utils.ts 44, 51; index.ts 65, 72.
ExpireCookie(name) ==
    /\ name \in {"access_token", "refresh_token"}
    /\ jar[name] # None
    /\ jar' = [jar EXCEPT ![name] = None]
    /\ UNCHANGED <<cache, req, nextPair, started, alive, pipelining, failedRefresh, loggedOut, expiresIn, maxAge>>

\* 'EX', 300: a cache entry reaches its time to live.
CacheExpire(k) ==
    /\ cache[k] # None
    /\ cache' = [cache EXCEPT ![k] = None]
    /\ UNCHANGED <<jar, req, nextPair, started, alive, pipelining, failedRefresh, loggedOut, expiresIn, maxAge>>

Next ==
    \/ \E r \in Reqs : StartValidate(r)
    \/ \E r \in Reqs : ValidateCacheGet(r)
    \/ \E r \in Reqs : ValidateUserinfo(r)
    \/ \E r \in Reqs : ValidateCacheSet(r)
    \/ \E r \in Reqs : ValidateRefresh(r)
    \/ \E r \in Reqs : ValidateRetryUserinfo(r)
    \/ \E r \in Reqs : ValidateRetryCacheSet(r)
    \/ \E r \in Reqs : StartProxy(r)
    \/ \E r \in Reqs : ProxyCall(r)
    \/ \E r \in Reqs : ProxyRefresh(r)
    \/ \E r \in Reqs : ProxyRetry(r)
    \/ \E r \in Reqs : StartCallback(r)
    \/ \E r \in Reqs : CallbackExchange(r)
    \/ \E r \in Reqs : Logout(r)
    \/ \E r \in Reqs : Deliver(r)
    \/ \E r \in Reqs : Abandon(r)
    \/ \E name \in CookieNames : ExpireCookie(name)
    \/ \E k \in CacheKeys : CacheExpire(k)

\* Any number of requests, one at a time.
Spec == Init /\ [][Next]_vars

\* MaxRequests requests, up to two of them at a time.
SpecConcurrent == InitConcurrent /\ [][Next]_vars

(***************************************************************************)
(* A client that presents an access token the provider has issued before:  *)
(* a copy of the cookie outlives the browser's own (another tab's pending  *)
(* request, a script, a proxy).  It sends the access_token cookie alone to *)
(* /auth/validate, which reads it like any other (index.ts 97-98).         *)
(***************************************************************************)
ReplayHeaders ==
    {[EmptyHeader EXCEPT !["access_token"] = AT(n)] : n \in 1..(nextPair - 1)}

ReplayValidate(r) ==
    /\ MaySend(r)
    /\ \E h \in ReplayHeaders :
         req' = [req EXCEPT ![r] = ValidateEntry(Sent("validate", h))]
    /\ UNCHANGED <<jar, cache, nextPair>>

NextReplay ==
    \/ Next
    \/ \E r \in Reqs : ReplayValidate(r)

\* A browser that waits for each response, and such a client.
SpecReplay == Init /\ [][NextReplay]_vars

(***************************************************************************)
(* The maxAge options of the two cookies (index.ts 65, 72; utils.ts 44,    *)
(* 51), as a function of the token response.  Every maxAge the code        *)
(* computes is a product by 1000; 30 * 24 * 3600 * 1000 is beyond the      *)
(* integers of the model checker, so a product k * 1000 is held as         *)
(* Thousand(k).  A browser keeps a cookie for maxAge / 1000 seconds.       *)
(***************************************************************************)
\* Greatest refresh_expires_in, in absolute value, of the token responses.
MaxExpiresIn == 25

\* A number of a JSON body, and the JavaScript values NaN and k * 1000.
Number(n) == <<"number", n>>
NaN == <<"NaN">>
Thousand(k) == <<"thousand", k>>

\* data.refresh_expires_in: absent (undefined), or an integer.
ExpiresInValues == {None} \cup {Number(n) : n \in -MaxExpiresIn..MaxExpiresIn}

\* x * 1000: NaN for undefined.
Times1000(x) == IF x = None THEN NaN ELSE Thousand(x[2])
\* a || b on numbers: b when a is 0 or NaN.
OrNumber(a, b) == IF a = NaN \/ a = Thousand(0) THEN b ELSE a
\* Seconds a browser keeps a cookie set with this maxAge.
LifetimeSeconds(ms) == ms[2]

\* index.ts 65 and 72.
CallbackAccessMaxAge == Thousand(3600)
CallbackRefreshMaxAge(refresh_expires_in) ==
    OrNumber(Times1000(refresh_expires_in), Thousand(30 * 24 * 3600))
\* utils.ts 44 and 51.
RefreshAccessMaxAge == Thousand(3600)
RefreshRefreshMaxAge(refresh_expires_in) ==
    OrNumber(Times1000(refresh_expires_in), Thousand(30 * 24 * 3600))

\* A token response with any refresh_expires_in has arrived.
InitCookies ==
    /\ Started /\ pipelining = FALSE
    /\ expiresIn \in ExpiresInValues
    /\ maxAge = None

\* index.ts 61-74: /auth/callback sets the two cookies.
CallbackSetCookies ==
    /\ maxAge = None
    /\ maxAge' = [by |-> "callback",
                  access_token |-> CallbackAccessMaxAge,
                  refresh_token |-> CallbackRefreshMaxAge(expiresIn)]
    /\ UNCHANGED <<jar, cache, req, nextPair, started, alive, pipelining,
                   failedRefresh, loggedOut, expiresIn>>

\* utils.ts 40-53: refreshTokens sets the two cookies.
RefreshSetCookies ==
    /\ maxAge = None
    /\ maxAge' = [by |-> "refresh",
                  access_token |-> RefreshAccessMaxAge,
                  refresh_token |-> RefreshRefreshMaxAge(expiresIn)]
    /\ UNCHANGED <<jar, cache, req, nextPair, started, alive, pipelining,
                   failedRefresh, loggedOut, expiresIn>>

NextCookies == CallbackSetCookies \/ RefreshSetCookies

\* The cookie options of one token response, by either code path.
SpecCookies == InitCookies /\ [][NextCookies]_vars

(***************************************************************************)
(* What a request did, read from its record.                               *)
(***************************************************************************)
CallsOf(rec, ops) == SelectSeq(rec.calls, LAMBDA c : c.op \in ops)
\* Calls of the original operation: userinfo on /auth/validate, the backend
\* on /api/v1.
UpstreamCalls(rec) == CallsOf(rec, {"userinfo", "backend"})
RefreshCalls(rec) == CallsOf(rec, {"refresh"})
CacheCalls(rec) == CallsOf(rec, {"cache_get", "cache_set"})

Protected(rec) == rec.route \in {"validate", "proxy"}
Got401(call) == call.result.kind = "http" /\ call.result.status = 401
Accepted(call) == call.result.kind = "ok"

\* The first upstream call of the request was rejected with 401.
FirstRejected(rec) ==
    /\ Protected(rec)
    /\ Len(UpstreamCalls(rec)) >= 1
    /\ Got401(UpstreamCalls(rec)[1])

\* The request's first refresh call was accepted by the provider.
RefreshAccepted(rec) ==
    /\ Len(RefreshCalls(rec)) >= 1
    /\ Accepted(RefreshCalls(rec)[1])

\* The request's first refresh call failed.
RefreshFailed(rec) ==
    /\ Len(RefreshCalls(rec)) >= 1
    /\ ~Accepted(RefreshCalls(rec)[1])

(***************************************************************************)
(* C1.  A request to /auth/validate or /api/v1/* whose first upstream call *)
(* is rejected with 401 and whose refresh is accepted makes exactly one    *)
(* refresh call and exactly one retry, and the retry carries the access    *)
(* token of the refresh; a 401 on the retry ends the request: no second    *)
(* refresh, no third upstream call.                                        *)
(***************************************************************************)
C1_OneRefreshOneRetry ==
    \A r \in Reqs :
        LET rec == req[r]
            up == UpstreamCalls(rec)
            rf == RefreshCalls(rec)
        IN  (FirstRejected(rec) /\ RefreshAccepted(rec)) =>
              /\ Len(rf) = 1
              /\ Len(up) <= 2
              /\ rec.pc \in {"v_info2", "p_call2"} <=> Len(up) = 1
              /\ rec.pc = "done" => Len(up) = 2
              /\ Len(up) = 2 =>
                    /\ up[2].arg = rf[1].result.data.access_token
                    /\ up[2].arg # up[1].arg
                    /\ Got401(up[2]) => rec.pc = "done"

\* A request that was refreshed and whose retry was rejected with 401 has ended.
C1_Witness ==
    \E r \in Reqs :
        /\ FirstRejected(req[r]) /\ RefreshAccepted(req[r])
        /\ Len(UpstreamCalls(req[r])) = 2
        /\ Got401(UpstreamCalls(req[r])[2])
        /\ req[r].pc = "done"

(***************************************************************************)
(* C2.  A request to /auth/validate or /api/v1/* that carries no           *)
(* access_token cookie is answered 401 unauthenticated and makes no call   *)
(* at all: none to the provider, the backend, the refresh endpoint or the  *)
(* cache, also when it carries a refresh token.                            *)
(***************************************************************************)
C2_NoTokenNoCall ==
    \A r \in Reqs :
        LET rec == req[r] IN
        (Protected(rec) /\ rec.header["access_token"] = None) =>
            /\ rec.pc = "done"
            /\ rec.status = 401
            /\ rec.body = IF rec.route = "validate" THEN NotAuthenticated ELSE Unauthorized
            /\ rec.calls = <<>>

\* What does hold: a request in which the handler finds no token (for
\* /api/v1 the access_token cookie, for /auth/validate that cookie or a match
\* of the pattern in the raw header) is answered 401 and makes no call.
C2_NoTokenFoundNoCall ==
    \A r \in Reqs :
        LET rec == req[r] IN
        (Protected(rec) /\ rec.token = None) =>
            /\ rec.pc = "done"
            /\ rec.status = 401
            /\ rec.body = IF rec.route = "validate" THEN NotAuthenticated ELSE Unauthorized
            /\ rec.calls = <<>>

(***************************************************************************)
(* C3.  A request to /auth/validate or /api/v1/* whose access token is     *)
(* accepted by the first upstream call makes exactly one upstream call and *)
(* no refresh call.                                                        *)
(***************************************************************************)
C3_ValidTokenOneCall ==
    \A r \in Reqs :
        LET rec == req[r] IN
        (Protected(rec) /\ Len(UpstreamCalls(rec)) >= 1
                        /\ Accepted(UpstreamCalls(rec)[1])) =>
            /\ Len(UpstreamCalls(rec)) = 1
            /\ Len(RefreshCalls(rec)) = 0
            /\ rec.pc \in {"v_set1", "done"}

\* A request with a refresh token has ended after its token was accepted and
\* the write to the cache failed.
C3_Witness ==
    \E r \in Reqs :
        /\ req[r].pc = "done"
        /\ req[r].refreshToken # None
        /\ Len(UpstreamCalls(req[r])) = 1
        /\ Accepted(UpstreamCalls(req[r])[1])
        /\ \E i \in 1..Len(req[r].calls) : req[r].calls[i].result = RedisError

(***************************************************************************)
(* C4.  When the first upstream call returns 401 and the refresh fails,    *)
(* the request ends with 401 ({error:"Unauthorized"} on the proxy,         *)
(* {isAuthenticated:false} on validate), the operation is not retried, no  *)
(* second refresh is made, and the response has no cookie directive: the   *)
(* browser's cookies are what they were.                                   *)
(***************************************************************************)
C4_RefreshFailureEnds401 ==
    \A r \in Reqs :
        LET rec == req[r] IN
        (FirstRejected(rec) /\ RefreshFailed(rec)) =>
            /\ rec.pc = "done"
            /\ rec.responses = 1
            /\ rec.status = 401
            /\ rec.body = IF rec.route = "validate" THEN NotAuthenticated ELSE Unauthorized
            /\ Len(UpstreamCalls(rec)) = 1
            /\ Len(RefreshCalls(rec)) = 1
            /\ rec.cookies = NoCookies
            /\ Delivered(jar, rec.cookies) = jar

\* A proxied request of a browser that holds both cookies has ended after a
\* 401 of the backend and a failed refresh.
C4_Witness ==
    \E r \in Reqs :
        /\ req[r].route = "proxy"
        /\ FirstRejected(req[r]) /\ RefreshFailed(req[r])
        /\ req[r].pc = "done"
        /\ jar["access_token"] # None /\ jar["refresh_token"] # None

(***************************************************************************)
(* C5.  Whenever a refresh succeeds during a request, the response carries *)
(* a new access_token cookie and a new refresh_token cookie, both taken    *)
(* from that one response of the provider, whether the retry then succeeds *)
(* or fails.                                                               *)
(***************************************************************************)
C5_RefreshSetsBothCookies ==
    \A r \in Reqs :
        LET rec == req[r]
            rf == RefreshCalls(rec)
        IN  (Protected(rec) /\ RefreshAccepted(rec)) =>
              /\ rec.cookies.access_token = rf[1].result.data.access_token
              /\ rec.cookies.refresh_token = rf[1].result.data.refresh_token
              /\ \E n \in 1..MaxPairs : rec.cookies = [access_token |-> AT(n),
                                                       refresh_token |-> RT(n)]
              /\ rec.cookies.access_token # rec.header["access_token"]
              /\ rec.cookies.refresh_token # rec.header["refresh_token"]

\* A refreshed request has been answered after its retry failed.
C5_Witness ==
    \E r \in Reqs :
        /\ Protected(req[r]) /\ RefreshAccepted(req[r])
        /\ req[r].pc = "done" /\ req[r].status = 401
        /\ Len(UpstreamCalls(req[r])) = 2
        /\ ~Accepted(UpstreamCalls(req[r])[2])

(***************************************************************************)
(* C6.  In the proxy, after a successful refresh, a failure of the retried *)
(* backend call is answered with the status the backend returned on the    *)
(* retry, for every failure status.                                        *)
(***************************************************************************)
C6_RetryFailureVerbatim ==
    \A r \in Reqs :
        LET rec == req[r]
            up == UpstreamCalls(rec)
        IN  (rec.route = "proxy" /\ rec.pc = "done" /\ RefreshAccepted(rec)
               /\ Len(up) = 2 /\ up[2].result.kind = "http") =>
              rec.status = up[2].result.status

(***************************************************************************)
(* C7.  In the proxy, a 401 of the first backend call on a request without *)
(* refresh token is answered with the Unauthenticated result, status 401   *)
(* and body {error:"Unauthorized"}, with no refresh call and no retry.     *)
(***************************************************************************)
C7_NoRefreshTokenUnauthenticated ==
    \A r \in Reqs :
        LET rec == req[r] IN
        (rec.route = "proxy" /\ FirstRejected(rec)
           /\ rec.header["refresh_token"] = None) =>
            /\ rec.pc = "done"
            /\ rec.status = 401
            /\ rec.body = Unauthorized
            /\ Len(RefreshCalls(rec)) = 0
            /\ Len(UpstreamCalls(rec)) = 1

(***************************************************************************)
(* C8.  In the proxy, a failure of the first backend call other than 401   *)
(* is answered with the backend's status, or with 500 when the backend     *)
(* gave no response; there is no refresh call, no retry and no cookie.     *)
(***************************************************************************)
C8_OtherFailureSurfaced ==
    \A r \in Reqs :
        LET rec == req[r]
            up == UpstreamCalls(rec)
        IN  (rec.route = "proxy" /\ Len(up) >= 1
               /\ ~Accepted(up[1]) /\ ~Got401(up[1])) =>
              /\ rec.pc = "done"
              /\ rec.responses = 1
              /\ up[1].result.kind = "http" => rec.status = up[1].result.status
              /\ up[1].result.kind = "network" => rec.status = 500
              /\ Len(up) = 1
              /\ Len(RefreshCalls(rec)) = 0
              /\ rec.cookies = NoCookies

\* A proxied request that holds a refresh token has been answered with the
\* 403 of the backend.
C8_Witness ==
    \E r \in Reqs :
        /\ req[r].route = "proxy" /\ req[r].pc = "done"
        /\ req[r].refreshToken # None
        /\ Len(UpstreamCalls(req[r])) = 1
        /\ UpstreamCalls(req[r])[1].result = AxiosHttpError(403)
        /\ req[r].status = 403

(***************************************************************************)
(* C9.  On /auth/validate, for every behaviour of the provider, a request  *)
(* during which a cache operation fails (get or set raising a connectivity *)
(* error) gets the response it gets when the cache works and is empty:     *)
(* 200 with the identity when the last userinfo call of the request was    *)
(* accepted, 401 {isAuthenticated:false} when it was rejected, and one of  *)
(* the two when the provider was not consulted.  Stated for the requests   *)
(* that carry an access_token cookie: no other request is meant to reach   *)
(* the cache.                                                              *)
(***************************************************************************)
CacheFailed(rec) ==
    \E i \in 1..Len(rec.calls) :
        rec.calls[i].op \in {"cache_get", "cache_set"} /\ rec.calls[i].result = RedisError

C9_CacheFailureSameResponse ==
    \A r \in Reqs :
        LET rec == req[r]
            info == UpstreamCalls(rec)
        IN  (rec.route = "validate" /\ rec.header["access_token"] # None
               /\ CacheFailed(rec)) =>
              /\ rec.pc = "done"
              /\ rec.responses = 1
              /\ IF info = <<>>
                 THEN \/ rec.status = 200 /\ rec.body.isAuthenticated
                      \/ rec.status = 401 /\ rec.body = NotAuthenticated
                 ELSE IF Accepted(info[Len(info)])
                 THEN rec.status = 200
                      /\ rec.body = Authenticated(info[Len(info)].result.data)
                 ELSE rec.status = 401 /\ rec.body = NotAuthenticated

\* The part of C9 that the failure of redis.set alone refutes: the provider
\* accepted the token, the cache could not be written.
C9_CacheSetFailureSameResponse ==
    \A r \in Reqs :
        LET rec == req[r]
            info == UpstreamCalls(rec)
        IN  (rec.route = "validate" /\ rec.header["access_token"] # None
               /\ rec.pc = "done" /\ info # <<>> /\ Accepted(info[Len(info)])) =>
              rec.status = 200 /\ rec.body = Authenticated(info[Len(info)].result.data)

(***************************************************************************)
(* C10.  Every /auth/validate request ends with exactly one response,      *)
(* 200 {isAuthenticated:true, user} or 401 {isAuthenticated:false},        *)
(* whatever the provider, the refresh endpoint and the cache do; the       *)
(* handler never ends in an exception nobody catches.  Stated for the      *)
(* requests that carry an access_token cookie.                             *)
(***************************************************************************)
C10_ValidateAlwaysAnswers ==
    \A r \in Reqs :
        LET rec == req[r] IN
        (rec.route = "validate" /\ rec.header["access_token"] # None) =>
            /\ rec.pc # "uncaught"
            /\ rec.responses <= 1
            /\ rec.pc = "done" =>
                  /\ rec.responses = 1
                  /\ \/ rec.status = 200 /\ rec.body.isAuthenticated
                     \/ rec.status = 401 /\ rec.body = NotAuthenticated

(***************************************************************************)
(* C11.  Every write to the cache stores, under the key of access token T, *)
(* the identity the provider has just returned for a userinfo call made    *)
(* with bearer token T; a lookup for token T reads the key of T and no     *)
(* other, and answers with what is stored there; after a refresh the       *)
(* identity is stored under the new access token and the entry of the old  *)
(* one is left as it was.  Keys of distinct tokens are distinct, so an     *)
(* entry under the key of T is one that was written for T.                 *)
(***************************************************************************)
LastCall(rec) == rec.calls[Len(rec.calls)]

C11_CacheEntryOfItsToken ==
    [][/\ \A t, u \in AccessTokens : CacheKey(t) = CacheKey(u) => t = u
       /\ \A t \in AccessTokens :
            (cache'[CacheKey(t)] # cache[CacheKey(t)] /\ cache'[CacheKey(t)] # None) =>
               \E r \in Reqs :
                  LET rec == req'[r]
                      info == UpstreamCalls(rec)
                  IN  /\ rec.route = "validate"
                      /\ info # <<>>
                      /\ info[Len(info)].op = "userinfo"
                      /\ info[Len(info)].arg = t
                      /\ Accepted(info[Len(info)])
                      /\ cache'[CacheKey(t)] =
                           JSONStringify(Authenticated(info[Len(info)].result.data))
                      /\ RefreshAccepted(rec) =>
                           /\ t = RefreshCalls(rec)[1].result.data.access_token
                           /\ t # rec.token
                           /\ cache'[CacheKey(rec.token)] = cache[CacheKey(rec.token)]
       /\ \A r \in Reqs :
            LET rec == req'[r] IN
            (Len(rec.calls) = Len(req[r].calls) + 1 /\ LastCall(rec).op = "cache_get") =>
               /\ LastCall(rec).arg = CacheKey(rec.token)
               /\ LastCall(rec).result \in {RedisOk(cache[CacheKey(rec.token)]), RedisError}
               /\ (rec.pc = "done" /\ rec.status = 200) =>
                     JSONStringify(rec.body) = cache[CacheKey(rec.token)]
      ]_vars

\* After a refresh the identity has been stored under the new access token,
\* while nothing is stored under the old one.
C11_Witness ==
    \E r \in Reqs :
        /\ req[r].route = "validate" /\ req[r].pc = "done" /\ req[r].status = 200
        /\ RefreshAccepted(req[r])
        /\ req[r].token = AT(1)
        /\ cache[CacheKey(AT(2))] # None
        /\ cache[CacheKey(AT(1))] = None

(***************************************************************************)
(* C12.  A request to /auth/validate or /api/v1/* of a browser whose       *)
(* access token has expired and that still sends a refresh token is        *)
(* refreshed: when it is answered, the refresh endpoint has been called    *)
(* with that refresh token, also when the access_token cookie has lapsed   *)
(* in the browser and the refresh_token cookie is the only one sent.       *)
(* Stated for requests without a cookie of another application.            *)
(***************************************************************************)
C12_ExpiredAccessRefreshed ==
    \A r \in Reqs :
        LET rec == req[r]
            up == UpstreamCalls(rec)
        IN  (/\ Protected(rec) /\ rec.pc = "done"
             /\ rec.header["x_access_token"] = None
             /\ rec.header["refresh_token"] # None
             /\ \/ rec.header["access_token"] = None
                \/ up # <<>> /\ Got401(up[1])) =>
              /\ RefreshCalls(rec) # <<>>
              /\ RefreshCalls(rec)[1].arg = rec.header["refresh_token"]

\* What does hold: with an access_token cookie that the upstream rejects
\* with 401, the request is refreshed with its refresh token.
C12_RejectedAccessRefreshed ==
    \A r \in Reqs :
        LET rec == req[r]
            up == UpstreamCalls(rec)
        IN  (/\ Protected(rec) /\ rec.pc = "done"
             /\ rec.header["refresh_token"] # None
             /\ up # <<>> /\ Got401(up[1])) =>
              /\ RefreshCalls(rec) # <<>>
              /\ RefreshCalls(rec)[1].arg = rec.header["refresh_token"]

(***************************************************************************)
(* C13.  Requests of one browser that run concurrently refresh each on its *)
(* own: each calls the refresh endpoint at most once, with the refresh     *)
(* token it was sent with, and two refreshed requests hold two different   *)
(* pairs.  The response of a request to /auth/validate or /api/v1/*, once  *)
(* the browser applies it, makes the two cookies the pair of that          *)
(* request's refresh, and leaves them what they are when it has no cookie  *)
(* directive; so the access_token and refresh_token cookies of the         *)
(* browser, when it holds both, are always of one pair.                    *)
(***************************************************************************)
MatchedPair(j) ==
    (j["access_token"] # None /\ j["refresh_token"] # None) =>
        \E n \in 1..MaxPairs : j["access_token"] = AT(n) /\ j["refresh_token"] = RT(n)

C13_LastResponseWins ==
    /\ MatchedPair(jar)
    /\ \A r \in Reqs :
          LET rec == req[r]
              rf == RefreshCalls(rec)
          IN  /\ Len(rf) <= 1
              /\ rf # <<>> => rf[1].arg = rec.refreshToken /\ rf[1].arg # None
              /\ \A q \in Reqs \ {r} :
                   (RefreshAccepted(rec) /\ RefreshAccepted(req[q])) =>
                      rec.tokens # req[q].tokens
              /\ (Protected(rec) /\ rec.pc = "done") =>
                   IF RefreshAccepted(rec)
                   THEN /\ Delivered(jar, rec.cookies)["access_token"] =
                             rf[1].result.data.access_token
                        /\ Delivered(jar, rec.cookies)["refresh_token"] =
                             rf[1].result.data.refresh_token
                        /\ MatchedPair(Delivered(jar, rec.cookies))
                   ELSE Delivered(jar, rec.cookies) = jar

\* Two requests sent with the same access token and the same refresh token
\* have both been refreshed, and both responses wait to be applied.
C13_Witness ==
    /\ \A r \in Reqs :
          /\ Protected(req[r]) /\ req[r].pc = "done"
          /\ FirstRejected(req[r]) /\ RefreshAccepted(req[r])
          /\ req[r].header["access_token"] # None
    /\ req[1].header = req[2].header
    /\ req[1].cookies # req[2].cookies

C14_NoSecondRefreshInRequest ==
    \A r \in Reqs :
        RefreshFailed(req[r]) => req[r].pc = "done" /\ Len(RefreshCalls(req[r])) = 1

(***************************************************************************)
(* C15.  The calls a request makes to the provider and the backend are, in *)
(* order, a prefix of: the original operation, the refresh, the original   *)
(* operation.  The refresh is there only when the first call was rejected  *)
(* with 401 and the request has a refresh token; the second call of the    *)
(* operation is there only when the refresh succeeded, and it carries the  *)
(* refreshed access token, which is not the one sent first.                *)
(***************************************************************************)
\* The calls of a request other than those to the cache.
Outbound(rec) == CallsOf(rec, {"userinfo", "backend", "refresh"})

C15_CallOrder ==
    \A r \in Reqs :
        LET rec == req[r]
            out == Outbound(rec)
            operation == IF rec.route = "validate" THEN "userinfo" ELSE "backend"
        IN  /\ Len(RefreshCalls(rec)) <= 1
            /\ Len(UpstreamCalls(rec)) <= 2
            /\ Len(out) <= 3
            /\ out # <<>> => Protected(rec)
            /\ Len(out) >= 1 => out[1].op = operation /\ out[1].arg = rec.token
            /\ Len(out) >= 2 =>
                  /\ out[2].op = "refresh"
                  /\ Got401(out[1])
                  /\ rec.refreshToken # None
                  /\ out[2].arg = rec.refreshToken
            /\ Len(out) = 3 =>
                  /\ out[3].op = operation
                  /\ Accepted(out[2])
                  /\ out[3].arg = out[2].result.data.access_token
                  /\ out[3].arg # out[1].arg

\* A request to /auth/validate has made its three calls and was answered 200.
C15_Witness ==
    \E r \in Reqs :
        /\ req[r].route = "validate" /\ req[r].pc = "done" /\ req[r].status = 200
        /\ Len(Outbound(req[r])) = 3

(***************************************************************************)
(* C16.  /auth/callback: a request whose code is missing or is no string   *)
(* is answered 400, makes no call and sets no cookie; one whose code       *)
(* exchange fails is answered 500 with the generic body and sets no        *)
(* cookie; one whose exchange succeeds sets the access_token and the       *)
(* refresh_token cookie to the pair of the provider's response and is      *)
(* redirected (302) to the app URL.  No response sets one of the two       *)
(* cookies without the other.                                              *)
(***************************************************************************)
C16_CallbackOutcomes ==
    \A r \in Reqs :
        LET rec == req[r] IN
        rec.route = "callback" =>
            /\ Len(rec.calls) <= 1
            /\ (rec.cookies.access_token = None) <=> (rec.cookies.refresh_token = None)
            /\ rec.code \in {"absent", "array"} =>
                  /\ rec.pc = "done" /\ rec.responses = 1
                  /\ rec.status = 400 /\ rec.body = InvalidCode
                  /\ rec.calls = <<>>
                  /\ rec.cookies = NoCookies
            /\ (rec.calls # <<>> /\ ~Accepted(rec.calls[1])) =>
                  /\ rec.pc = "done" /\ rec.responses = 1
                  /\ rec.status = 500 /\ rec.body = AuthenticationFailed
                  /\ rec.cookies = NoCookies
            /\ (rec.calls # <<>> /\ Accepted(rec.calls[1])) =>
                  /\ rec.pc = "done" /\ rec.responses = 1
                  /\ rec.status = 302 /\ rec.body = RedirectApp
                  /\ rec.cookies.access_token = rec.calls[1].result.data.access_token
                  /\ rec.cookies.refresh_token = rec.calls[1].result.data.refresh_token
                  /\ \E n \in 1..MaxPairs :
                        rec.cookies = [access_token |-> AT(n), refresh_token |-> RT(n)]
            /\ rec.pc = "done" => rec.status \in {400, 500, 302}

\* A browser that holds a session has sent a code whose exchange failed.
C16_Witness ==
    \E r \in Reqs :
        /\ req[r].route = "callback" /\ req[r].pc = "done" /\ req[r].status = 500
        /\ req[r].header["access_token"] # None
        /\ req[r].header["refresh_token"] # None

(***************************************************************************)
(* C17.  The response of /auth/logout, whatever cookies the request        *)
(* carried, clears the access_token and the refresh_token cookie and       *)
(* redirects to the provider's logout endpoint; once the browser has       *)
(* applied it, and until an /auth/callback has succeeded, every request to *)
(* /auth/validate or /api/v1/* is answered 401 at once, without a call to  *)
(* the provider, the backend or the refresh endpoint.                      *)
(***************************************************************************)
LogoutClears(rec) ==
    /\ rec.pc = "done" /\ rec.responses = 1
    /\ rec.status = 302 /\ rec.body = RedirectLogout
    /\ rec.cookies = [access_token |-> Clear, refresh_token |-> Clear]
    /\ rec.calls = <<>>
    /\ Delivered(jar, rec.cookies)["access_token"] = None
    /\ Delivered(jar, rec.cookies)["refresh_token"] = None

Refused(rec) ==
    /\ rec.pc \notin {"v_info1", "p_call1", "refresh", "uncaught"}
    /\ rec.pc = "done" => rec.status = 401
    /\ UpstreamCalls(rec) = <<>>
    /\ RefreshCalls(rec) = <<>>

C17_LogoutEndsSession ==
    \A r \in Reqs :
        /\ req[r].route = "logout" => LogoutClears(req[r])
        /\ (loggedOut /\ Protected(req[r])) => Refused(req[r])

\* What does hold for a browser that waits for each response: the same for
\* the requests that carry no cookie of another application, and the
\* browser holds neither cookie while it is logged out.
C17_LogoutEndsSessionOwnCookies ==
    /\ loggedOut => jar["access_token"] = None /\ jar["refresh_token"] = None
    /\ \A r \in Reqs :
        /\ req[r].route = "logout" => LogoutClears(req[r])
        /\ (loggedOut /\ Protected(req[r]) /\ req[r].header["x_access_token"] = None) =>
              Refused(req[r]) /\ req[r].calls = <<>>

(***************************************************************************)
(* C18.  Whenever the cookies are set, by /auth/callback or by a refresh,  *)
(* the access_token cookie lives 3600 seconds, and the refresh_token       *)
(* cookie lives refresh_expires_in seconds when the token response has     *)
(* that field, whatever integer it is (0 too), and 30 days when it has     *)
(* not; the two code paths give the same lifetimes.                        *)
(***************************************************************************)
C18_CookieLifetimes ==
    maxAge # None =>
        /\ LifetimeSeconds(maxAge.access_token) = 3600
        /\ LifetimeSeconds(maxAge.refresh_token) =
              IF expiresIn # None THEN expiresIn[2] ELSE 30 * 24 * 3600
        /\ maxAge.access_token = CallbackAccessMaxAge
        /\ maxAge.access_token = RefreshAccessMaxAge
        /\ maxAge.refresh_token = CallbackRefreshMaxAge(expiresIn)
        /\ maxAge.refresh_token = RefreshRefreshMaxAge(expiresIn)

\* What does hold: the same, with 30 days also for a refresh_expires_in of 0.
C18_CookieLifetimesZeroAsAbsent ==
    maxAge # None =>
        /\ LifetimeSeconds(maxAge.access_token) = 3600
        /\ LifetimeSeconds(maxAge.refresh_token) =
              IF expiresIn \notin {None, Number(0)} THEN expiresIn[2] ELSE 30 * 24 * 3600
        /\ maxAge.access_token = CallbackAccessMaxAge
        /\ maxAge.access_token = RefreshAccessMaxAge
        /\ maxAge.refresh_token = CallbackRefreshMaxAge(expiresIn)
        /\ maxAge.refresh_token = RefreshRefreshMaxAge(expiresIn)

(***************************************************************************)
(* C19.  /auth/validate answers 200 only with {isAuthenticated: true,      *)
(* user}, and only when either the last userinfo call of the request was   *)
(* accepted, made with the request's access token or with the access token *)
(* of the request's refresh, the answer being the identity of that call;   *)
(* or the cache held an entry under the key of the request's access token, *)
(* the answer being that entry and the provider not being called.  Every   *)
(* cache entry is an {isAuthenticated: true, user} payload.                *)
(***************************************************************************)
CacheHit(rec) ==
    /\ Len(rec.calls) = 1
    /\ rec.calls[1].op = "cache_get"
    /\ rec.calls[1].arg = CacheKey(rec.token)
    /\ rec.calls[1].result.kind = "ok"
    /\ rec.calls[1].result.data # None
    /\ rec.body = JSONParse(rec.calls[1].result.data)

ProviderAccepted(rec) ==
    LET info == UpstreamCalls(rec)
        last == info[Len(info)]
    IN  /\ info # <<>>
        /\ Accepted(last)
        /\ rec.body = Authenticated(last.result.data)
        /\ IF RefreshCalls(rec) = <<>>
           THEN Len(info) = 1 /\ last.arg = rec.token
           ELSE /\ Len(info) = 2 /\ RefreshAccepted(rec)
                /\ last.arg = RefreshCalls(rec)[1].result.data.access_token

C19_AuthenticatedOnlyIfAccepted ==
    /\ \A k \in CacheKeys :
          cache[k] # None => \E u \in Users : cache[k] = JSONStringify(Authenticated(u))
    /\ \A r \in Reqs :
          LET rec == req[r] IN
          (rec.route = "validate" /\ rec.pc = "done") =>
              /\ rec.status = 200 <=> (rec.body # FrameworkError /\ rec.body.isAuthenticated)
              /\ rec.status = 200 =>
                    /\ \E u \in Users : rec.body = Authenticated(u)
                    /\ CacheHit(rec) \/ ProviderAccepted(rec)
                    /\ CacheHit(rec) => UpstreamCalls(rec) = <<>> /\ RefreshCalls(rec) = <<>>

\* A request has been answered 200 from the cache, without a call to the
\* provider.
C19_Witness ==
    \E r \in Reqs :
        /\ req[r].route = "validate" /\ req[r].pc = "done" /\ req[r].status = 200
        /\ CacheHit(req[r])
        /\ UpstreamCalls(req[r]) = <<>>

(***************************************************************************)
(* C20.  In a request whose refresh succeeded, the bearer token of the     *)
(* retried call, the access_token cookie of the response and, on           *)
(* /auth/validate, the token in the key of the cache write after the retry *)
(* are one and the same: the access token returned by the request's        *)
(* single refresh call.  The token the request came with is not sent       *)
(* upstream and not used as a cache key after the refresh.                 *)
(***************************************************************************)
\* The calls of the request made after its first refresh call.
AfterRefresh(rec) ==
    LET at == CHOOSE i \in 1..Len(rec.calls) : rec.calls[i].op = "refresh"
    IN  SubSeq(rec.calls, at + 1, Len(rec.calls))

C20_OneRefreshedToken ==
    \A r \in Reqs :
        LET rec == req[r] IN
        (Protected(rec) /\ RefreshAccepted(rec)) =>
            LET new == RefreshCalls(rec)[1].result.data.access_token
                later == AfterRefresh(rec)
            IN  /\ Len(RefreshCalls(rec)) = 1
                /\ new # rec.token
                /\ rec.tokens.access_token = new
                /\ rec.cookies.access_token = new
                /\ Len(later) <= 2
                /\ \A i \in 1..Len(later) :
                      /\ later[i].op \in {"userinfo", "backend", "cache_set"}
                      /\ later[i].op \in {"userinfo", "backend"} => later[i].arg = new
                      /\ later[i].op = "cache_set" =>
                            /\ rec.route = "validate"
                            /\ later[i].arg = CacheKey(new)
                            /\ later[i].arg # CacheKey(rec.token)
                /\ rec.pc = "done" => Len(later) >= 1

\* A refreshed request to /auth/validate has written the cache and answered.
C20_Witness ==
    \E r \in Reqs :
        /\ req[r].route = "validate" /\ req[r].pc = "done" /\ req[r].status = 200
        /\ RefreshAccepted(req[r])
        /\ Len(AfterRefresh(req[r])) = 2
        /\ cache[CacheKey(req[r].cookies.access_token)] # None

(***************************************************************************)
(* C21.  The step in which /auth/logout is handled makes no call to the    *)
(* provider, the backend or the cache and leaves every cache entry as it   *)
(* is.  So, once the browser has logged out, a request to /auth/validate   *)
(* that presents an access token issued before and reads the cache while   *)
(* the entry of that token is still there is answered 200 with the         *)
(* {isAuthenticated: true, user} payload of the entry, without a call to   *)
(* the provider; once the entry has expired, the provider is asked.        *)
(***************************************************************************)
C21_LogoutKeepsCache ==
    [][\A r \in Reqs :
         /\ (req[r].pc = "idle" /\ req'[r].route = "logout") =>
               /\ cache' = cache
               /\ nextPair' = nextPair
               /\ req'[r].calls = <<>>
               /\ req'[r].pc = "done"
         /\ (/\ loggedOut
             /\ req[r].route = "validate" /\ req[r].pc = "v_get"
             /\ req'[r] # req[r]
             /\ req'[r].calls[1].result # RedisError) =>
               LET entry == cache[CacheKey(req[r].token)] IN
               /\ req'[r].calls = <<[op |-> "cache_get", arg |-> CacheKey(req[r].token),
                                     result |-> RedisOk(entry)]>>
               /\ cache' = cache
               /\ IF entry # None
                  THEN /\ req'[r].pc = "done" /\ req'[r].status = 200
                       /\ JSONStringify(req'[r].body) = entry
                       /\ req'[r].body.isAuthenticated
                  ELSE req'[r].pc = "v_info1"
      ]_vars

\* After the logout a request that presented an access token of the
\* provider was answered 200 from the cache, the provider not being called.
C21_Witness ==
    /\ loggedOut
    /\ jar["access_token"] = None
    /\ \E r \in Reqs :
          /\ req[r].route = "validate" /\ req[r].pc = "done" /\ req[r].status = 200
          /\ req[r].header["access_token"] \in {AT(n) : n \in 1..MaxPairs}
          /\ req[r].header["x_access_token"] = None
          /\ CacheHit(req[r])
          /\ UpstreamCalls(req[r]) = <<>>

====
